---------------------------- MODULE Spec2Model ----------------------------
(***************************************************************************)
(* A model of src/worker/ga4.ts: the GA4Report class (constructor, the     *)
(* primary-event accessor, send), the per-connection session cache         *)
(* (getSession) and the two parameter encoders (maybeAddShortParam,        *)
(* maybeAddCustomEventParam).                                              *)
(*                                                                         *)
(* Four specifications share the definitions below:                        *)
(*   Spec       two reports of one connection: construction, the primary   *)
(*              event accessor, and the steps of send() interleaved at its *)
(*              awaits;                                                    *)
(*   SpecSend   one report under every configuration send() looks at       *)
(*              (ids, client id and ip, session, events) and every answer  *)
(*              of the upload (status, duration, failure);                 *)
(*   SpecConns  two reports over two connections, for the session cache;   *)
(*   SpecEnc    the query/body encoder applied to reports drawn from a     *)
(*              bounded set of field values.                               *)
(* The caller assigns a report's fields only while no send() of that       *)
(* report is in flight.                                                    *)
(***************************************************************************)
EXTENDS Integers, Sequences, FiniteSets, TLC

(***************************************************************************)
(* JavaScript values.  A value carries its typeof tag and the text         *)
(* String(value) yields for it, so that the two encoders can be told apart *)
(* on booleans ("1"/"0" against "true"/"false") and on null.               *)
(***************************************************************************)
Undefined == [t |-> "undefined", s |-> "undefined"]

Null == [t |-> "null", s |-> "null"]

Str(s) == [t |-> "string", s |-> s]

Bool(b) == [t |-> "boolean", s |-> IF b THEN "true" ELSE "false"]

Digit(d) == CASE d = 0 -> "0" [] d = 1 -> "1" [] d = 2 -> "2" [] d = 3 -> "3" [] d = 4 -> "4" [] d = 5 -> "5" [] d = 6 -> "6" [] d = 7 -> "7" [] d = 8 -> "8" [] d = 9 -> "9"

RECURSIVE NatToString(_)
NatToString(n) == IF n < 10 THEN Digit(n) ELSE NatToString(n \div 10) \o Digit(n % 10)

Num(n) == [t |-> "number", s |-> NatToString(n)]

BigInt(n) == [t |-> "bigint", s |-> NatToString(n)]

\* String(value)
String(value) == value.s

\* value == null  (true of null and of undefined)
IsNullish(value) == value.t \in {"undefined", "null"}

(***************************************************************************)
(* Record<string, string>: an object whose own string keys enumerate in    *)
(* insertion order; assigning an existing key keeps the key's place.       *)
(***************************************************************************)
Keys(params) == [i \in 1..Len(params) |-> params[i].k]

Has(params, k) == \E i \in 1..Len(params) : params[i].k = k

Get(params, k) == (CHOOSE i \in 1..Len(params) : params[i].k = k)

Lookup(params, k) == params[Get(params, k)].v

Put(params, k, v) == IF Has(params, k) THEN [params EXCEPT ![Get(params, k)].v = v] ELSE Append(params, [k |-> k, v |-> v])

(***************************************************************************)
(* snakeCase of deno.land/x/case, on the parameter names of the model.     *)
(***************************************************************************)
ParamNames == {"myMetric", "myFlag", "my_metric"}

snakeCase(name) == CASE name = "myMetric" -> "my_metric" [] name = "myFlag" -> "my_flag" [] name = "event_category" -> "event_category" [] name = "event_label" -> "event_label" [] OTHER -> name

(***************************************************************************)
(* function maybeAddShortParam(params, name, value)                        *)
(***************************************************************************)
maybeAddShortParamBoolAsText(params, name, value) == IF IsNullish(value) THEN params ELSE Put(params, name, String(value))

maybeAddShortParam(params, name, value) == IF IsNullish(value) THEN params ELSE IF value.t = "boolean" THEN Put(params, name, IF value = Bool(TRUE) THEN "1" ELSE "0") ELSE Put(params, name, String(value))

(***************************************************************************)
(* function maybeAddCustomEventParam(params, prefix, name, value)          *)
(***************************************************************************)
maybeAddCustomEventParamNoSuffix(params, prefix, name, value) == IF value = Undefined THEN params ELSE Put(params, prefix \o "." \o snakeCase(name), String(value))

maybeAddCustomEventParam(params, prefix, name, value) == IF value = Undefined THEN params ELSE IF value.t \in {"number", "bigint"} THEN Put(params, prefix \o "n." \o snakeCase(name), String(value)) ELSE Put(params, prefix \o "." \o snakeCase(name), String(value))

\* for (const [name, value] of Object.entries(record)) maybeAddCustomEventParam(...)
RECURSIVE AddCustomParams(_, _, _)
AddCustomParams(params, prefix, entries) == IF entries = <<>> THEN params ELSE AddCustomParams(maybeAddCustomEventParam(params, prefix, Head(entries).name, Head(entries).value), prefix, Tail(entries))


(***************************************************************************)
(* Bounds of the model.                                                    *)
(***************************************************************************)
\* secondary events a caller pushes onto one report
MaxExtra == 1

\* custom params of one event
MaxParams == 2

\* no new send starts on a session whose hitCount has reached this value
MaxHits == 2

\* connection handles (ConnInfo objects) alive in the worker
Conns == {"c1", "c2"}

\* report objects the caller holds at one time
Reports == {"r1", "r2"}

(***************************************************************************)
(* Program constants.                                                      *)
(***************************************************************************)
GA4_ENDPOINT_URL == "https://www.google-analytics.com/g/collect"

SLOW_UPLOAD_THRESHOLD == 1000

(***************************************************************************)
(* Events.  events[1] is the primary event, which may be null; the         *)
(* entries after it are the secondary events.                              *)
(***************************************************************************)
NullEvent == [null |-> TRUE, name |-> Null, category |-> Undefined, label |-> Undefined, params |-> <<>>]

Event(name, category, label, params) == [null |-> FALSE, name |-> Str(name), category |-> category, label |-> label, params |-> params]

\* Boolean(event)
Truthy(event) == ~event.null

\* this.events.filter(Boolean).length
TruthyCount(events) == Cardinality({i \in 1..Len(events) : Truthy(events[i])})

(***************************************************************************)
(* Sessions live in a heap (sessions); a report and the sessionMap hold    *)
(* references into it, 0 standing for undefined.                           *)
(***************************************************************************)
NoCampaign == [source |-> Undefined, medium |-> Undefined, id |-> Undefined, name |-> Undefined, content |-> Undefined, term |-> Undefined]

\* the values this.session?.<field> yields
SessionView(sessions, ref) == IF ref = 0 THEN [id |-> Undefined, number |-> Undefined, engaged |-> Undefined, start |-> Undefined, hitCount |-> Undefined] ELSE [id |-> Str(sessions[ref].id), number |-> Num(sessions[ref].number), engaged |-> Bool(sessions[ref].engaged), start |-> sessions[ref].start, hitCount |-> Num(sessions[ref].hitCount)]

\* function getSession(conn): the heap and map after the call, and the session returned
getSessionNoCache(sessions, sessionMap, conn, number) == [sessions |-> Append(sessions, [id |-> "sid" \o NatToString(Len(sessions) + 1), number |-> number, engaged |-> TRUE, start |-> Bool(TRUE), hitCount |-> 0]), sessionMap |-> [sessionMap EXCEPT ![conn] = Len(sessions) + 1], ref |-> Len(sessions) + 1]

getSession(sessions, sessionMap, conn, number) == IF sessionMap[conn] = 0 THEN [sessions |-> Append(sessions, [id |-> "sid" \o NatToString(Len(sessions) + 1), number |-> number, engaged |-> TRUE, start |-> Bool(TRUE), hitCount |-> 0]), sessionMap |-> [sessionMap EXCEPT ![conn] = Len(sessions) + 1], ref |-> Len(sessions) + 1] ELSE [sessions |-> sessions, sessionMap |-> sessionMap, ref |-> sessionMap[conn]]

(***************************************************************************)
(* class GA4Report: constructor.  init carries measurementId and what the  *)
(* constructor reads off the request and response (client ip, language,    *)
(* forwarded headers, page location, title, cross-site referrer).          *)
(***************************************************************************)
GA4Report(init, session) == [measurementId |-> init.measurementId, client |-> [id |-> Undefined, ip |-> init.ip, language |-> init.language, headers |-> init.headers], user |-> [id |-> Undefined, properties |-> <<>>], session |-> session, page |-> [location |-> init.location, title |-> init.title, referrer |-> init.referrer, ignoreReferrer |-> Undefined, trafficType |-> IF IsNullish(init.referrer) THEN Undefined ELSE Str("referral"), firstVisit |-> Undefined, newToSite |-> Undefined], campaign |-> NoCampaign, events |-> <<Event("page_view", Undefined, Undefined, <<>>)>>]

\* get event()
GetEvent(rep) == rep.events[1]

\* set event(event)
SetEventOf(rep, event) == [rep EXCEPT !.events[1] = event]

(***************************************************************************)
(* send(): the query parameters, lines 133-187.                            *)
(***************************************************************************)
ClientParams(q, rep) == maybeAddShortParam(maybeAddShortParam(maybeAddShortParam(maybeAddShortParam(maybeAddShortParam(maybeAddShortParam(q, "v", Num(2)), "tid", rep.measurementId), "cid", rep.client.id), "ul", rep.client.language), "_uip", rep.client.ip), "uid", rep.user.id)

CampaignParams(q, c) == maybeAddShortParam(maybeAddShortParam(maybeAddShortParam(maybeAddShortParam(maybeAddShortParam(maybeAddShortParam(q, "cs", c.source), "cm", c.medium), "ci", c.id), "cn", c.name), "cc", c.content), "ck", c.term)

SessionParams(q, sv) == maybeAddShortParam(maybeAddShortParam(maybeAddShortParam(maybeAddShortParam(q, "sid", sv.id), "sct", sv.number), "seg", sv.engaged), "_s", sv.hitCount)

PageParams(q, page) == maybeAddShortParam(maybeAddShortParam(maybeAddShortParam(maybeAddShortParam(maybeAddShortParam(q, "dl", page.location), "dr", page.referrer), "dt", page.title), "ir", page.ignoreReferrer), "tt", page.trafficType)

\* category and label, then the event's own params
EventCustomParams(q, event) == AddCustomParams(maybeAddCustomEventParam(maybeAddCustomEventParam(q, "ep", "event_category", event.category), "ep", "event_label", event.label), "ep", event.params)

PrimaryEventParamsNameFirst(q, rep, sv) == IF Truthy(GetEvent(rep)) THEN maybeAddShortParam(maybeAddShortParam(maybeAddShortParam(EventCustomParams(maybeAddShortParam(q, "en", GetEvent(rep).name), GetEvent(rep)), "_fv", rep.page.firstVisit), "_nsi", rep.page.newToSite), "_ss", sv.start) ELSE q

PrimaryEventParams(q, rep, sv) == IF Truthy(GetEvent(rep)) THEN maybeAddShortParam(maybeAddShortParam(maybeAddShortParam(maybeAddShortParam(EventCustomParams(q, GetEvent(rep)), "en", GetEvent(rep).name), "_fv", rep.page.firstVisit), "_nsi", rep.page.newToSite), "_ss", sv.start) ELSE q

QueryParams(rep, sv) == AddCustomParams(PrimaryEventParams(PageParams(SessionParams(CampaignParams(ClientParams(<<>>, rep), rep.campaign), sv), rep.page), rep, sv), "up", rep.user.properties)

\* send(): the body, lines 189-216: one parameter list per secondary event, the name first
ExtraEventParams(event) == EventCustomParams(maybeAddShortParam(<<>>, "en", event.name), event)

Body(rep) == [i \in 1..(Len(rep.events) - 1) |-> ExtraEventParams(rep.events[i + 1])]

\* new Request(url, { method: "POST", headers, body })
Request(rep, sv) == [url |-> GA4_ENDPOINT_URL, method |-> "POST", search |-> QueryParams(rep, sv), headers |-> rep.client.headers, body |-> Body(rep)]

\* async function toDigest(msg), and the material send() hands it
toDigest(msg) == "sha1(" \o msg \o ")"

ClientIdMaterial(client) == client.ip.s \o "," \o client.headers.userAgent \o "," \o client.headers.secChUa

(***************************************************************************)
(* State.                                                                  *)
(*   sessions    the heap of Session objects                               *)
(*   sessionMap  const sessionMap = new WeakMap<ConnInfo, Session>()       *)
(*   reports     the GA4Report objects the caller holds, each with the     *)
(*               position of its send() (pc), the request it has handed to *)
(*               fetch, and the number of fetch calls of the current send  *)
(*   out         what the last step did to the outside: console.warn       *)
(*               calls, fetch calls of the send it ended, how it ended     *)
(*   hist        history, per session: the events counted by the sends     *)
(*               that got a 2xx answer (okSum), how many of those sends    *)
(*               carried _ss (ssOk), whether a send ever started while     *)
(*               another send on the session was in flight (overlapped)    *)
(*   encIn, encOut  input and output of the encoder in SpecEnc             *)
(***************************************************************************)
VARIABLES sessions, sessionMap, reports, out, hist, encIn, encOut

vars == <<sessions, sessionMap, reports, out, hist, encIn, encOut>>

NoRequest == [url |-> "", method |-> "", search |-> <<>>, headers |-> [userAgent |-> "", secChUa |-> ""], body |-> <<>>]

NoInit == [measurementId |-> Undefined, ip |-> Undefined, language |-> Undefined, headers |-> [userAgent |-> "", secChUa |-> ""], location |-> Undefined, title |-> Undefined, referrer |-> Undefined]

NoSlot == [pc |-> "none", conn |-> "none", rep |-> GA4Report(NoInit, 0), req |-> NoRequest, fetches |-> 0, stale |-> FALSE]

\* Deno.env.get was not called
NotRead == [t |-> "notRead", s |-> ""]

Quiet == [exit |-> "none", envRead |-> NotRead, status |-> 0, duration |-> 0, warns |-> 0, fetches |-> 0, raised |-> FALSE]

NoHist == [okSum |-> 0, ssOk |-> 0, overlapped |-> FALSE]

\* const request = new Request(...): the request of the model's page views
DefaultInit(measurementId) == [measurementId |-> measurementId, ip |-> Str("10.0.0.1"), language |-> Str("en"), headers |-> [userAgent |-> "UA", secChUa |-> ""], location |-> Str("https://deno.land/x/oak"), title |-> Str("x / oak"), referrer |-> Undefined]

\* !value, for the values a measurement id takes
Falsy(value) == IsNullish(value) \/ value = Str("")

InFlight(slot) == slot.pc \in {"digest", "fetch"}

(***************************************************************************)
(* The caller: new GA4Report(init), and its assignments to a report that   *)
(* is not being sent.                                                      *)
(***************************************************************************)
NewReport(r, c, measurementId, number) ==
    /\ reports[r].pc \in {"none", "idle"}
    /\ LET got == getSession(sessions, sessionMap, c, number)
       IN /\ sessions' = got.sessions
          /\ sessionMap' = got.sessionMap
          /\ hist' = IF Len(got.sessions) > Len(sessions) THEN Append(hist, NoHist) ELSE hist
          /\ reports' = [reports EXCEPT ![r] = [NoSlot EXCEPT !.pc = "idle", !.conn = c, !.rep = GA4Report(DefaultInit(measurementId), got.ref)]]
    /\ out' = Quiet
    /\ UNCHANGED <<encIn, encOut>>

\* report.event = event
SetEvent(r, event) ==
    /\ reports[r].pc = "idle"
    /\ GetEvent(reports[r].rep) # event
    /\ reports' = [reports EXCEPT ![r].rep = SetEventOf(@, event)]
    /\ out' = Quiet
    /\ UNCHANGED <<sessions, sessionMap, hist, encIn, encOut>>

\* report.events.push(event)
PushEvent(r, event) ==
    /\ reports[r].pc = "idle"
    /\ Len(reports[r].rep.events) - 1 < MaxExtra
    /\ reports' = [reports EXCEPT ![r].rep.events = Append(@, event)]
    /\ out' = Quiet
    /\ UNCHANGED <<sessions, sessionMap, hist, encIn, encOut>>

\* report.client.id = id
SetClientId(r, id) ==
    /\ reports[r].pc = "idle"
    /\ reports[r].rep.client.id # id
    /\ reports' = [reports EXCEPT ![r].rep.client.id = id]
    /\ out' = Quiet
    /\ UNCHANGED <<sessions, sessionMap, hist, encIn, encOut>>

\* report.client.ip = undefined
ClearClientIp(r) ==
    /\ reports[r].pc = "idle"
    /\ reports[r].rep.client.ip # Undefined
    /\ reports' = [reports EXCEPT ![r].rep.client.ip = Undefined]
    /\ out' = Quiet
    /\ UNCHANGED <<sessions, sessionMap, hist, encIn, encOut>>

\* report.session = undefined
DropSession(r) ==
    /\ reports[r].pc = "idle"
    /\ reports[r].rep.session # 0
    /\ reports' = [reports EXCEPT ![r].rep.session = 0]
    /\ out' = Quiet
    /\ UNCHANGED <<sessions, sessionMap, hist, encIn, encOut>>

(***************************************************************************)
(* send()                                                                  *)
(***************************************************************************)
\* this.measurementId ??= Deno.env.get("GA4_MEASUREMENT_ID")
ResolveEnvFirst(rep, envMid) == [rep |-> [rep EXCEPT !.measurementId = IF IsNullish(envMid) THEN @ ELSE envMid], envRead |-> envMid]

ResolveMeasurementId(rep, envMid) == IF IsNullish(rep.measurementId) THEN [rep |-> [rep EXCEPT !.measurementId = envMid], envRead |-> envMid] ELSE [rep |-> rep, envRead |-> NotRead]

\* lines 133-218 and the call of fetch: the slot once the request is on its way
Post(slot, sess) == [slot EXCEPT !.pc = "fetch", !.req = Request(slot.rep, SessionView(sess, slot.rep.session)), !.fetches = @ + 1, !.stale = FALSE]

\* lines 227-233: the session after an answer with response.ok = ok
OnResponseAnyStatus(session, rep, ok) == [session EXCEPT !.start = IF Truthy(GetEvent(rep)) THEN Undefined ELSE @, !.hitCount = @ + (IF TruthyCount(rep.events) = 0 THEN 1 ELSE TruthyCount(rep.events))]

OnResponseCountOne(session, rep, ok) == IF ok THEN [session EXCEPT !.start = IF Truthy(GetEvent(rep)) THEN Undefined ELSE @, !.hitCount = @ + 1] ELSE session

OnResponseKeepStart(session, rep, ok) == IF ok THEN [session EXCEPT !.hitCount = @ + (IF TruthyCount(rep.events) = 0 THEN 1 ELSE TruthyCount(rep.events))] ELSE session

OnResponse(session, rep, ok) == IF ok THEN [session EXCEPT !.start = IF Truthy(GetEvent(rep)) THEN Undefined ELSE @, !.hitCount = @ + (IF TruthyCount(rep.events) = 0 THEN 1 ELSE TruthyCount(rep.events))] ELSE session

\* line 235: the warnings an answer draws
ResponseWarnsNon2xxOnly(status, duration) == IF status \notin 200..299 THEN 1 ELSE 0

ResponseWarns(status, duration) == IF status # 204 \/ duration >= SLOW_UPLOAD_THRESHOLD THEN 1 ELSE 0

\* lines 235-241: the send ends with the answer, whatever it is
AfterResponseRetry(slot, ok) == IF ok THEN [slot EXCEPT !.pc = "idle", !.req = NoRequest, !.stale = FALSE] ELSE [slot EXCEPT !.fetches = @ + 1]

AfterResponse(slot, ok) == [slot EXCEPT !.pc = "idle", !.req = NoRequest, !.stale = FALSE]

\* lines 242-244: catch (err) { this.warn(...) }
CatchRethrow == [warns |-> 1, raised |-> TRUE]

Catch == [warns |-> 1, raised |-> FALSE]

\* lines 109-111: the short circuit
NoEventsToReportPrimaryOnly(rep) == ~Truthy(GetEvent(rep))

NoEventsToReport(rep) == \A i \in 1..Len(rep.events) : ~Truthy(rep.events[i])

\* whether a send that starts on session ref overlaps another one
Overlaps(r, ref) == ref # 0 /\ \E q \in Reports \ {r} : InFlight(reports[q]) /\ reports[q].rep.session = ref

MarkOverlap(r, ref) == IF Overlaps(r, ref) THEN [hist EXCEPT ![ref].overlapped = TRUE] ELSE hist

\* send(), from the call to its first await or return
SendBegin(r, envMid) ==
    /\ reports[r].pc = "idle"
    /\ reports[r].rep.session # 0 => sessions[reports[r].rep.session].hitCount < MaxHits
    /\ UNCHANGED <<sessions, sessionMap, encIn, encOut>>
    /\ LET rep == reports[r].rep
           got == ResolveMeasurementId(rep, envMid)
           resolved == got.rep
           slot == [reports[r] EXCEPT !.rep = resolved, !.fetches = 0]
       IN IF NoEventsToReport(rep)
          THEN /\ out' = [Quiet EXCEPT !.exit = "noEvents"]
               /\ UNCHANGED <<reports, hist>>
          ELSE IF Falsy(resolved.measurementId)
          THEN /\ out' = [Quiet EXCEPT !.exit = "noMeasurementId", !.envRead = got.envRead, !.warns = 1]
               /\ reports' = [reports EXCEPT ![r] = slot]
               /\ UNCHANGED hist
          ELSE IF IsNullish(rep.client.id) /\ IsNullish(rep.client.ip)
          THEN /\ out' = [Quiet EXCEPT !.exit = "noClient", !.envRead = got.envRead, !.warns = 1]
               /\ reports' = [reports EXCEPT ![r] = slot]
               /\ UNCHANGED hist
          ELSE IF IsNullish(rep.client.id)
          THEN /\ out' = [Quiet EXCEPT !.exit = "await", !.envRead = got.envRead]
               /\ reports' = [reports EXCEPT ![r] = [slot EXCEPT !.pc = "digest"]]
               /\ hist' = MarkOverlap(r, rep.session)
          ELSE /\ out' = [Quiet EXCEPT !.exit = "await", !.envRead = got.envRead, !.fetches = 1]
               /\ reports' = [reports EXCEPT ![r] = Post(slot, sessions)]
               /\ hist' = MarkOverlap(r, rep.session)

\* send(), from the answer of toDigest to the await of fetch
SendDigest(r) ==
    /\ reports[r].pc = "digest"
    /\ LET slot == reports[r]
           id == Str(toDigest(ClientIdMaterial(slot.rep.client)))
       IN reports' = [reports EXCEPT ![r] = Post([slot EXCEPT !.rep.client.id = id], sessions)]
    /\ out' = [Quiet EXCEPT !.exit = "await", !.fetches = 1]
    /\ UNCHANGED <<sessions, sessionMap, hist, encIn, encOut>>

\* send(), from the answer of fetch to the end
SendResponse(r, status, duration) ==
    /\ reports[r].pc = "fetch"
    /\ LET slot == reports[r]
           ref == slot.rep.session
           ok == status \in 200..299
           after == AfterResponse(slot, ok)
       IN /\ sessions' = IF ref # 0 THEN [sessions EXCEPT ![ref] = OnResponse(@, slot.rep, ok)] ELSE sessions
          /\ reports' = [q \in Reports |-> IF q = r THEN after ELSE IF ok /\ ref # 0 /\ InFlight(reports[q]) /\ reports[q].rep.session = ref THEN [reports[q] EXCEPT !.stale = TRUE] ELSE reports[q]]
          /\ hist' = IF ok /\ ref # 0 THEN [hist EXCEPT ![ref].okSum = @ + TruthyCount(slot.rep.events), ![ref].ssOk = @ + (IF Has(slot.req.search, "_ss") THEN 1 ELSE 0)] ELSE hist
          /\ out' = [exit |-> IF after.pc = "idle" THEN "answered" ELSE "await", envRead |-> NotRead, status |-> status, duration |-> duration, warns |-> ResponseWarns(status, duration), fetches |-> after.fetches, raised |-> FALSE]
    /\ UNCHANGED <<sessionMap, encIn, encOut>>

\* send(), when fetch rejects
SendFail(r) ==
    /\ reports[r].pc = "fetch"
    /\ reports' = [reports EXCEPT ![r] = [@ EXCEPT !.pc = "idle", !.req = NoRequest, !.stale = FALSE]]
    /\ out' = [Quiet EXCEPT !.exit = "failed", !.warns = Catch.warns, !.raised = Catch.raised, !.fetches = reports[r].fetches]
    /\ UNCHANGED <<sessions, sessionMap, hist, encIn, encOut>>

(***************************************************************************)
(* Spec: the worker.  Every report is built with an explicit measurement   *)
(* id and keeps the client the constructor gave it; the callers differ in  *)
(* the connection they build a report for, in its events, and in how their *)
(* sends interleave.                                                       *)
(***************************************************************************)
PageView == Event("page_view", Undefined, Undefined, <<>>)

Click == Event("click", Undefined, Undefined, <<>>)

Minutes == {3600}

MeasurementIds == {Undefined, Str("G-TEST")}

NoEncIn == [rep |-> GA4Report(NoInit, 0), sv |-> SessionView(<<>>, 0)]

Init ==
    /\ sessions = <<>>
    /\ sessionMap = [c \in Conns |-> 0]
    /\ reports = [r \in Reports |-> NoSlot]
    /\ out = Quiet
    /\ hist = <<>>
    /\ encIn = NoEncIn
    /\ encOut = NoRequest

Next ==
    \/ \E r \in Reports, m \in MeasurementIds, n \in Minutes : NewReport(r, "c1", m, n)
    \/ \E r \in Reports, e \in {NullEvent, PageView} : SetEvent(r, e)
    \/ \E r \in Reports : PushEvent(r, Click)
    \/ \E r \in Reports : SendBegin(r, Undefined)
    \/ \E r \in Reports : SendDigest(r)
    \/ \E r \in Reports, s \in {204, 500} : SendResponse(r, s, 20)
    \/ \E r \in Reports : SendFail(r)

Spec == Init /\ [][Next]_vars

(***************************************************************************)
(* SpecSend: one report at a time on one connection, with every            *)
(* configuration send() looks at: measurement id given or not, environment *)
(* default set or not, client id and ip set or not, session dropped, and   *)
(* every kind of answer.                                                   *)
(***************************************************************************)
EnvMeasurementIds == {Undefined, Str(""), Str("G-ENV")}

Statuses == {200, 204, 500}

Durations == {20, 1000, 1500}

NextSend ==
    \/ \E m \in MeasurementIds, n \in Minutes : NewReport("r1", "c1", m, n)
    \/ \E e \in {NullEvent, PageView} : SetEvent("r1", e)
    \/ PushEvent("r1", Click)
    \/ SetClientId("r1", Str("cid-1"))
    \/ ClearClientIp("r1")
    \/ DropSession("r1")
    \/ \E m \in EnvMeasurementIds : SendBegin("r1", m)
    \/ SendDigest("r1")
    \/ \E s \in Statuses, d \in Durations : SendResponse("r1", s, d)
    \/ SendFail("r1")

SpecSend == Init /\ [][NextSend]_vars

(***************************************************************************)
(* SpecConns: reports built for two connections at different minutes, all  *)
(* sent with the default page_view and answered 204.                       *)
(***************************************************************************)
NextConns ==
    \/ \E r \in Reports, c \in Conns, n \in {3600, 3601} : NewReport(r, c, Str("G-TEST"), n)
    \/ \E r \in Reports : SendBegin(r, Undefined)
    \/ \E r \in Reports : SendDigest(r)
    \/ \E r \in Reports : SendResponse(r, 204, 20)

SpecConns == Init /\ [][NextConns]_vars

(***************************************************************************)
(* SpecEnc: the encoder of send() (lines 133-218) applied once to a report *)
(* whose measurement id and client id are resolved, the report and the     *)
(* session it reads drawn from the field values below.                     *)
(***************************************************************************)
ParamValues == {Num(42), Bool(TRUE), Null, Str("pro"), Undefined}

ParamEntries == [name : ParamNames, value : ParamValues]

\* the entries of a Record<string, Primitive> of at most n keys
ParamLists(n) == {l \in UNION {[1..k -> ParamEntries] : k \in 0..n} : \A i, j \in 1..Len(l) : l[i].name = l[j].name => i = j}

EncBase == [GA4Report(DefaultInit(Str("G-TEST")), 0) EXCEPT !.client.id = Str("cid-1")]

Campaigns == {NoCampaign, [NoCampaign EXCEPT !.source = Str("news"), !.medium = Str("email")], [source |-> Str("news"), medium |-> Str("email"), id |-> Str("c7"), name |-> Str("spring"), content |-> Str("top"), term |-> Str("deno")]}

SessionViews == {SessionView(<<>>, 0), SessionView(<<[id |-> "sid1", number |-> 3600, engaged |-> TRUE, start |-> Bool(TRUE), hitCount |-> 0]>>, 1), SessionView(<<[id |-> "sid1", number |-> 3600, engaged |-> TRUE, start |-> Undefined, hitCount |-> 12]>>, 1)}

Purchase(category, params) == Event("purchase", category, Str("checkout"), params)

\* reports that differ in which short parameters are set
EncShortInputs == {[rep |-> [EncBase EXCEPT !.client.language = l, !.client.ip = ip, !.user.id = u, !.campaign = c, !.page.referrer = ref, !.page.trafficType = IF IsNullish(ref) THEN Undefined ELSE Str("referral"), !.page.ignoreReferrer = ir, !.page.firstVisit = fv, !.page.newToSite = fv, !.user.properties = up, !.events = <<e>> \o [i \in 1..x |-> Click]], sv |-> sv] : l \in {Undefined, Str("en")}, ip \in {Undefined, Str("10.0.0.1")}, u \in {Undefined, Str("u1")}, c \in Campaigns, ref \in {Undefined, Str("https://example.com/")}, ir \in {Undefined, Bool(TRUE), Bool(FALSE)}, fv \in {Undefined, Bool(TRUE)}, up \in {<<>>, <<[name |-> "myMetric", value |-> Num(42)]>>}, e \in {NullEvent, PageView, Purchase(Str("shop"), <<[name |-> "myFlag", value |-> Bool(TRUE)]>>)}, x \in 0..MaxExtra, sv \in SessionViews}

UserProperties == {<<>>, <<[name |-> "my_metric", value |-> Null]>>, <<[name |-> "myMetric", value |-> Num(42)]>>, <<[name |-> "myFlag", value |-> Bool(FALSE)]>>, <<[name |-> "myFlag", value |-> Undefined], [name |-> "myMetric", value |-> Str("pro")]>>}

\* reports that differ in their custom event params and user properties
EncCustomInputs == {[rep |-> [EncBase EXCEPT !.user.properties = up, !.events = <<Purchase(cat, ps)>> \o [i \in 1..x |-> Purchase(Undefined, ps)]], sv |-> SessionView(<<>>, 0)] : cat \in {Undefined, Str("shop")}, ps \in ParamLists(MaxParams), up \in UserProperties, x \in 0..1}

InitEnc ==
    /\ sessions = <<>>
    /\ sessionMap = [c \in Conns |-> 0]
    /\ reports = [r \in Reports |-> NoSlot]
    /\ out = Quiet
    /\ hist = <<>>
    /\ encIn \in EncShortInputs \cup EncCustomInputs
    /\ encOut = NoRequest

Encode ==
    /\ encOut = NoRequest
    /\ encOut' = Request(encIn.rep, encIn.sv)
    /\ UNCHANGED <<sessions, sessionMap, reports, out, hist, encIn>>

NextEnc == Encode

SpecEnc == InitEnc /\ [][NextEnc]_vars

(***************************************************************************)
(* Vocabulary of the properties.                                           *)
(***************************************************************************)
\* the ways a call of send() leaves its synchronous first part
BeginExits == {"noEvents", "noMeasurementId", "noClient", "await"}

\* the ways a call of send() ends
EndExits == {"noEvents", "noMeasurementId", "noClient", "answered", "failed"}

\* this step is the synchronous first part of send() on report r
BeginsSend(r) == reports[r].pc = "idle" /\ out'.exit \in BeginExits

\* this step hands the request of report r to fetch
PostsHit(r) == reports[r].pc # "fetch" /\ reports'[r].pc = "fetch"

\* this step is the end of send() on report r, on an answer of fetch
Answered(r) == reports[r].pc = "fetch" /\ reports'[r].pc = "idle" /\ out'.exit = "answered"

AnsweredOk(r) == Answered(r) /\ out'.status \in 200..299

AtLeastOne(n) == IF n < 1 THEN 1 ELSE n

(***************************************************************************)
(* C1.  A send answered with a 2xx status adds the number of truthy events *)
(* of its report (at least 1) to the hitCount of the report's session; a   *)
(* send that returns early (no truthy event, no measurement id, neither    *)
(* client id nor ip), is answered with another status, or whose fetch      *)
(* fails, leaves every hitCount as it was.  So hitCount never decreases    *)
(* and always equals the events counted by the 2xx-answered sends (okSum). *)
(***************************************************************************)
C1_HitCountAccounting ==
    /\ [](\A i \in 1..Len(sessions) : sessions[i].hitCount = hist[i].okSum)
    /\ [][\A i \in 1..Len(sessions) :
            /\ sessions'[i].hitCount >= sessions[i].hitCount
            /\ (out'.exit \in {"noEvents", "noMeasurementId", "noClient", "failed"} \/ (out'.exit = "answered" /\ out'.status \notin 200..299))
                  => sessions'[i].hitCount = sessions[i].hitCount
            /\ \A r \in Reports : AnsweredOk(r) /\ reports[r].rep.session = i
                  => sessions'[i].hitCount = sessions[i].hitCount + AtLeastOne(TruthyCount(reports[r].rep.events))]_vars

\* a send of two events was answered 200 after an earlier counted send
C1_Witness ==
    /\ out.exit = "answered" /\ out.status = 200
    /\ Len(sessions) = 1 /\ sessions[1].hitCount = 3 /\ hist[1].okSum = 3

(***************************************************************************)
(* C2.  The start flag of a session is true when the session is created;   *)
(* it changes only from true to undefined, and only at the end of a send   *)
(* that has a non-null primary event and was answered with a 2xx status;   *)
(* such a send always clears it; every other step leaves it alone; a hit   *)
(* handed to fetch while the flag is cleared carries no _ss.               *)
(***************************************************************************)
C2_StartFlag ==
    [][/\ Len(sessions') > Len(sessions) => sessions'[Len(sessions')].start = Bool(TRUE)
       /\ \A i \in 1..Len(sessions) :
            /\ sessions'[i].start # sessions[i].start
                  => /\ sessions[i].start = Bool(TRUE)
                     /\ sessions'[i].start = Undefined
                     /\ \E r \in Reports : AnsweredOk(r) /\ reports[r].rep.session = i /\ Truthy(GetEvent(reports[r].rep))
            /\ \A r \in Reports : AnsweredOk(r) /\ reports[r].rep.session = i /\ Truthy(GetEvent(reports[r].rep))
                  => sessions'[i].start = Undefined
            /\ \A r \in Reports : PostsHit(r) /\ reports'[r].rep.session = i /\ sessions[i].start = Undefined
                  => ~Has(reports'[r].req.search, "_ss")]_vars

\* a page_view hit on its way for a session whose flag was cleared before
C2_Witness ==
    \E r \in Reports :
        /\ reports[r].pc = "fetch" /\ ~reports[r].stale
        /\ reports[r].rep.session # 0
        /\ sessions[reports[r].rep.session].start = Undefined
        /\ Has(reports[r].req.search, "en")
        /\ ~Has(reports[r].req.search, "_ss")

(***************************************************************************)
(* C3.  send() never raises: with no measurement id, with neither client   *)
(* id nor ip, on a status other than 204, on a slow upload and on a        *)
(* failing fetch it ends normally, having logged one warning.              *)
(***************************************************************************)
C3_SendNeverRaises ==
    /\ out.raised = FALSE
    /\ out.exit \in {"noMeasurementId", "noClient", "failed"} => out.warns = 1
    /\ out.exit = "answered" /\ (out.status # 204 \/ out.duration > SLOW_UPLOAD_THRESHOLD) => out.warns = 1
    /\ out.exit \in EndExits => \A r \in Reports : reports[r].pc \in {"none", "idle"}

\* fetch failed: one warning, nothing raised
C3_Witness == out.exit = "failed" /\ out.warns = 1 /\ ~out.raised

(***************************************************************************)
(* C4.  send() on a report whose events are all falsy returns at once: no  *)
(* fetch, no warning, no change of the report or of any session, and the   *)
(* environment is not read; and send() returns this way in no other case.  *)
(***************************************************************************)
C4_NoEventsShortCircuit ==
    [][\A r \in Reports : BeginsSend(r) =>
          /\ (\A i \in 1..Len(reports[r].rep.events) : ~Truthy(reports[r].rep.events[i]))
                => /\ out'.exit = "noEvents" /\ out'.warns = 0 /\ out'.fetches = 0 /\ out'.envRead = NotRead
                   /\ UNCHANGED <<sessions, sessionMap, reports>>
          /\ out'.exit = "noEvents" => \A i \in 1..Len(reports[r].rep.events) : ~Truthy(reports[r].rep.events[i])]_vars

\* the short circuit taken by a report that has no measurement id
C4_Witness ==
    /\ out.exit = "noEvents" /\ out.warns = 0 /\ out.fetches = 0
    /\ reports["r1"].pc = "idle"
    /\ ~Truthy(GetEvent(reports["r1"].rep)) /\ Len(reports["r1"].rep.events) = 1
    /\ reports["r1"].rep.measurementId = Undefined

(***************************************************************************)
(* C5.  send() on a report with a truthy event, no measurementId of its    *)
(* own and no environment default logs one warning, calls fetch not at all *)
(* and leaves the sessions alone; a report with a measurementId of its own *)
(* keeps it, sends it as tid, and the environment is not read.             *)
(***************************************************************************)
C5_MeasurementId ==
    [][\A r \in Reports :
          /\ BeginsSend(r) /\ (\E i \in 1..Len(reports[r].rep.events) : Truthy(reports[r].rep.events[i]))
                => /\ IsNullish(reports[r].rep.measurementId) /\ out'.envRead \in {Undefined, Str("")}
                         => /\ out'.exit = "noMeasurementId" /\ out'.warns = 1 /\ out'.fetches = 0
                            /\ reports'[r].pc = "idle"
                            /\ UNCHANGED <<sessions, sessionMap>>
                   /\ ~IsNullish(reports[r].rep.measurementId)
                         => /\ out'.envRead = NotRead
                            /\ reports'[r].rep.measurementId = reports[r].rep.measurementId
          /\ PostsHit(r) => Lookup(reports'[r].req.search, "tid") = String(reports'[r].rep.measurementId)]_vars

\* the environment was read and held nothing: one warning, no fetch
C5_Witness ==
    /\ out.exit = "noMeasurementId" /\ out.envRead = Undefined
    /\ out.warns = 1 /\ out.fetches = 0
    /\ TruthyCount(reports["r1"].rep.events) = 2

(***************************************************************************)
(* C8.  One call of send() calls fetch at most once: the answer ends the   *)
(* send whatever its status and duration, a failure ends it too, and the   *)
(* one request carries the primary event in its query and every secondary  *)
(* event in its body.                                                      *)
(***************************************************************************)
C8_NoRetry ==
    /\ [](/\ out.fetches <= 1
          /\ out.exit \in {"answered", "failed"} => out.fetches = 1
          /\ \A r \in Reports :
                /\ reports[r].fetches <= 1
                /\ reports[r].pc = "fetch"
                      => /\ reports[r].fetches = 1
                         /\ reports[r].req.method = "POST"
                         /\ Len(reports[r].req.body) = Len(reports[r].rep.events) - 1
                         /\ Truthy(GetEvent(reports[r].rep)) => Has(reports[r].req.search, "en"))
    /\ [][\A r \in Reports : reports[r].pc = "fetch" /\ out'.status # 0 => reports'[r].pc = "idle" /\ out'.exit = "answered"]_vars

\* a slow 500 answer ended the send after its single fetch, with a warning
C8_Witness == out.exit = "answered" /\ out.status = 500 /\ out.duration = 1500 /\ out.fetches = 1 /\ out.warns = 1

(***************************************************************************)
(* C9.  The first report built for a connection creates the connection's   *)
(* session (engaged, start, hitCount 0); every later report built for it   *)
(* gets that same session, whose id and number never change; sessions of   *)
(* different connections are different objects, and only a send of a       *)
(* report built for a connection changes that connection's session.        *)
(***************************************************************************)
C9_SessionPerConnection ==
    /\ [](/\ Len(sessions) = Cardinality({c \in Conns : sessionMap[c] # 0})
          /\ \A c, d \in Conns : sessionMap[c] # 0 /\ sessionMap[c] = sessionMap[d] => c = d
          /\ \A r \in Reports : reports[r].pc # "none" => reports[r].rep.session # 0 /\ reports[r].rep.session = sessionMap[reports[r].conn])
    /\ [][/\ Len(sessions') > Len(sessions)
               => /\ Len(sessions') = Len(sessions) + 1
                  /\ sessions'[Len(sessions')].engaged /\ sessions'[Len(sessions')].start = Bool(TRUE) /\ sessions'[Len(sessions')].hitCount = 0
          /\ \A c \in Conns : sessionMap[c] # 0 => sessionMap'[c] = sessionMap[c]
          /\ \A i \in 1..Len(sessions) :
               /\ sessions'[i].id = sessions[i].id /\ sessions'[i].number = sessions[i].number
               /\ sessions'[i] # sessions[i] => \E r \in Reports : Answered(r) /\ sessionMap[reports[r].conn] = i]_vars

\* two reports of c1 share its used session while the session of c2 is untouched
C9_Witness ==
    /\ reports["r1"].conn = "c1" /\ reports["r2"].conn = "c1"
    /\ reports["r1"].rep.session = reports["r2"].rep.session
    /\ sessionMap["c1"] # 0 /\ sessionMap["c2"] # 0
    /\ sessions[sessionMap["c1"]].hitCount = 2 /\ sessions[sessionMap["c1"]].start = Undefined
    /\ sessions[sessionMap["c2"]].hitCount = 0 /\ sessions[sessionMap["c2"]].start = Bool(TRUE)
    /\ sessions[sessionMap["c1"]].number # sessions[sessionMap["c2"]].number

(***************************************************************************)
(* C10.  While no send on a session has started during another send on    *)
(* it, at most one 2xx-answered hit of the session carried _ss, and the _s *)
(* of a hit on its way equals the events counted by the earlier 2xx sends. *)
(* Hits on their way at the same time, with no 2xx answer taken since      *)
(* either was built, all carry the session's current hitCount as _s and,   *)
(* when they have a primary event, _ss exactly when start is still true.   *)
(* hitCount is the sum over the 2xx-answered sends in either case.         *)
(***************************************************************************)
C10_SingleInFlight ==
    /\ \A i \in 1..Len(sessions) :
          /\ sessions[i].hitCount = hist[i].okSum
          /\ ~hist[i].overlapped => hist[i].ssOk <= 1
    /\ \A r \in Reports : reports[r].pc = "fetch" /\ reports[r].rep.session # 0 =>
          LET i == reports[r].rep.session
          IN /\ ~hist[i].overlapped => Lookup(reports[r].req.search, "_s") = NatToString(hist[i].okSum)
             /\ ~reports[r].stale =>
                   /\ Lookup(reports[r].req.search, "_s") = NatToString(sessions[i].hitCount)
                   /\ Has(reports[r].req.search, "_ss") <=> (Truthy(GetEvent(reports[r].rep)) /\ sessions[i].start = Bool(TRUE))
                   /\ Has(reports[r].req.search, "_ss") => Lookup(reports[r].req.search, "_ss") = "1"

\* two overlapping sends were both answered 2xx; both had carried _ss, and both are counted
C10_Witness ==
    /\ Len(sessions) = 1
    /\ hist[1].overlapped /\ hist[1].ssOk = 2
    /\ sessions[1].hitCount = 3 /\ hist[1].okSum = 3
    /\ \A r \in Reports : reports[r].pc = "idle"

(***************************************************************************)
(* Vocabulary of the encoder's properties.                                 *)
(***************************************************************************)
\* the short parameters in the order of the wire, and the report field each one carries
ShortNames == <<"v", "tid", "cid", "ul", "_uip", "uid", "cs", "cm", "ci", "cn", "cc", "ck", "sid", "sct", "seg", "_s", "dl", "dr", "dt", "ir", "tt">>

EventShortNames == <<"en", "_fv", "_nsi", "_ss">>

ShortValue(in, name) == CASE name = "v" -> Num(2) [] name = "tid" -> in.rep.measurementId [] name = "cid" -> in.rep.client.id [] name = "ul" -> in.rep.client.language [] name = "_uip" -> in.rep.client.ip [] name = "uid" -> in.rep.user.id [] name = "cs" -> in.rep.campaign.source [] name = "cm" -> in.rep.campaign.medium [] name = "ci" -> in.rep.campaign.id [] name = "cn" -> in.rep.campaign.name [] name = "cc" -> in.rep.campaign.content [] name = "ck" -> in.rep.campaign.term [] name = "sid" -> in.sv.id [] name = "sct" -> in.sv.number [] name = "seg" -> in.sv.engaged [] name = "_s" -> in.sv.hitCount [] name = "dl" -> in.rep.page.location [] name = "dr" -> in.rep.page.referrer [] name = "dt" -> in.rep.page.title [] name = "ir" -> in.rep.page.ignoreReferrer [] name = "tt" -> in.rep.page.trafficType [] name = "en" -> in.rep.events[1].name [] name = "_fv" -> in.rep.page.firstVisit [] name = "_nsi" -> in.rep.page.newToSite [] name = "_ss" -> in.sv.start

\* the wire key of a custom param
WireKey(prefix, entry) == prefix \o (IF entry.value.t \in {"number", "bigint"} THEN "n." ELSE ".") \o snakeCase(entry.name)

\* the entries that hold a value, in their order
Written(entries) == SelectSeq(entries, LAMBDA entry : entry.value # Undefined)

WireKeys(prefix, entries) == [i \in 1..Len(Written(entries)) |-> WireKey(prefix, Written(entries)[i])]

Range(seq) == {seq[i] : i \in 1..Len(seq)}

\* the first place of k in seq
Pos(seq, k) == CHOOSE i \in 1..Len(seq) : seq[i] = k /\ \A j \in 1..(i - 1) : seq[j] # k

\* every key the query of report in may hold, in the order of the wire
WireOrder(in) == ShortNames \o (IF Truthy(in.rep.events[1]) THEN <<"ep.event_category", "ep.event_label">> \o WireKeys("ep", in.rep.events[1].params) \o EventShortNames ELSE <<>>) \o WireKeys("up", in.rep.user.properties)

Encoded == encOut # NoRequest

(***************************************************************************)
(* C6.  The keys of the query string come in the order v, tid, cid, ul,    *)
(* _uip, uid, cs, cm, ci, cn, cc, ck, sid, sct, seg, _s, dl, dr, dt, ir,   *)
(* tt, then for a non-null primary event ep event_category, ep             *)
(* event_label, the event's own params in their order, en, _fv, _nsi, _ss, *)
(* then the user properties; a short parameter is present exactly when its *)
(* value is set; with a null primary event the query holds no ep param and *)
(* none of en, _fv, _nsi, _ss.                                             *)
(***************************************************************************)
C6_QueryOrder ==
    Encoded =>
        LET ks == Keys(encOut.search)
            order == WireOrder(encIn)
        IN /\ \A i \in 1..Len(ks) : ks[i] \in Range(order)
           /\ \A i, j \in 1..Len(ks) : i < j => Pos(order, ks[i]) < Pos(order, ks[j])
           /\ \A n \in 1..Len(ShortNames) : Has(encOut.search, ShortNames[n]) <=> ~IsNullish(ShortValue(encIn, ShortNames[n]))
           /\ \A n \in 1..Len(EventShortNames) : Has(encOut.search, EventShortNames[n]) <=> (Truthy(encIn.rep.events[1]) /\ ~IsNullish(ShortValue(encIn, EventShortNames[n])))
           /\ ~Truthy(encIn.rep.events[1]) => \A i \in 1..Len(ks) : ks[i] \in Range(ShortNames) \cup Range(WireKeys("up", encIn.rep.user.properties))

\* a report with every short field set, a primary event with one param and one user property
C6_Witness ==
    /\ Encoded
    /\ Keys(encOut.search) = <<"v", "tid", "cid", "ul", "_uip", "uid", "cs", "cm", "ci", "cn", "cc", "ck", "sid", "sct", "seg", "_s", "dl", "dr", "dt", "ir", "tt", "ep.event_category", "ep.event_label", "ep.my_flag", "en", "_fv", "_nsi", "_ss", "upn.my_metric">>

(***************************************************************************)
(* C7.  Coercion of parameter values.                                      *)
(***************************************************************************)
\* a short parameter: omitted when null or undefined, "1"/"0" for a boolean, else the text of the value
ShortCoercion ==
    \A n \in 1..(Len(ShortNames) + Len(EventShortNames)) :
        LET name == (ShortNames \o EventShortNames)[n]
            value == ShortValue(encIn, name)
        IN (name \in Range(ShortNames) \/ Truthy(encIn.rep.events[1])) =>
              /\ IsNullish(value) => ~Has(encOut.search, name)
              /\ ~IsNullish(value) => Has(encOut.search, name) /\ Lookup(encOut.search, name) = (IF value = Bool(TRUE) THEN "1" ELSE IF value = Bool(FALSE) THEN "0" ELSE value.s)

\* entry i of entries is the last one written under its key
LastWritten(prefix, entries, i) == \A j \in (i + 1)..Len(entries) : entries[j].value = Undefined \/ WireKey(prefix, entries[j]) # WireKey(prefix, entries[i])

\* no entry of entries is written under the key of entry i
NoneWritten(prefix, entries, i, omitted) == \A j \in 1..Len(entries) : entries[j].value \in omitted \/ WireKey(prefix, entries[j]) # WireKey(prefix, entries[i])

\* custom params as the claim has them: null and undefined omitted, booleans "1"/"0"
CustomAsClaimed(prefix, entries) ==
    \A i \in 1..Len(entries) :
        LET value == entries[i].value
            key == WireKey(prefix, entries[i])
        IN /\ IsNullish(value) /\ NoneWritten(prefix, entries, i, {Undefined, Null}) => ~Has(encOut.search, key)
           /\ ~IsNullish(value) /\ LastWritten(prefix, entries, i) => Has(encOut.search, key) /\ Lookup(encOut.search, key) = (IF value = Bool(TRUE) THEN "1" ELSE IF value = Bool(FALSE) THEN "0" ELSE value.s)

\* custom params as encoded: only undefined omitted, every other value as its text
CustomAsEncoded(prefix, entries) ==
    \A i \in 1..Len(entries) :
        LET value == entries[i].value
            key == WireKey(prefix, entries[i])
        IN /\ value = Undefined /\ NoneWritten(prefix, entries, i, {Undefined}) => ~Has(encOut.search, key)
           /\ value # Undefined /\ LastWritten(prefix, entries, i) => Has(encOut.search, key) /\ Lookup(encOut.search, key) = value.s

\* C7 as claimed: the coercion (null and undefined omitted, booleans "1"/"0", anything else as text) holds for short and for custom params alike
C7_CoercionAsClaimed ==
    Encoded =>
        /\ ShortCoercion
        /\ Truthy(encIn.rep.events[1]) => CustomAsClaimed("ep", encIn.rep.events[1].params)
        /\ CustomAsClaimed("up", encIn.rep.user.properties)

\* C7 as amended: short params are omitted when null or undefined and write booleans as "1"/"0"; custom params are omitted only when undefined and write every other value, null and booleans too, as String(value) ("null", "true", "false"), under "<prefix>n.<snake_case name>" for a number or bigint and "<prefix>.<snake_case name>" otherwise
C7_Coercion ==
    Encoded =>
        /\ ShortCoercion
        /\ Truthy(encIn.rep.events[1]) => CustomAsEncoded("ep", encIn.rep.events[1].params)
        /\ CustomAsEncoded("up", encIn.rep.user.properties)
        /\ \A i \in 1..Len(encOut.body) : Keys(encOut.body[i])[1] = "en" /\ Lookup(encOut.body[i], "en") = encIn.rep.events[i + 1].name.s

\* myMetric = 42 and myFlag = true on the event, my_metric = null among the user properties
C7_Witness ==
    /\ Encoded
    /\ encIn.rep.events[1].params = <<[name |-> "myMetric", value |-> Num(42)], [name |-> "myFlag", value |-> Bool(TRUE)]>>
    /\ encIn.rep.user.properties = <<[name |-> "my_metric", value |-> Null]>>
    /\ Lookup(encOut.search, "epn.my_metric") = "42"
    /\ Lookup(encOut.search, "ep.my_flag") = "true"
    /\ Lookup(encOut.search, "up.my_metric") = "null"

=============================================================================
